---- MODULE Spec2Model ----
(***************************************************************************)
(* REALestate.ai: the recommendation scorer, the interaction log and the   *)
(* user-embedding updater, modelled from the route handlers and from       *)
(* BackendService.                                                         *)
(*                                                                         *)
(* Numbers: prices are in thousands of dollars, coordinates in tenths of a *)
(* degree, distances in metres, radii in kilometres, scores in thousandths.*)
(***************************************************************************)
EXTENDS Integers, Sequences, FiniteSets, TLC

VARIABLES
    interaction,     \* the interaction table: a set of rows
    user_embedding,  \* app_user.user_embedding, per user (Null when unset)
    app_user,        \* app_user.email, per user id (Null when the user has no row)
    edge,            \* the edge table: a set of rows
    clock,           \* the store's clock: the value of the next created_at
    inflight,        \* the recording requests that are between two awaits
    ack,             \* the answer of the last finished recording request
    response,        \* the answer of the last recommendation request
    stack,           \* the state of the mounted swipe stack component
    provider         \* the state of MatchesProvider

vars == <<interaction, user_embedding, app_user, edge, clock, inflight, ack, response,
          stack, provider>>

(***************************************************************************)
(* TLC compares only values of one kind, so every column keeps one kind:   *)
(* a missing text is Null, a missing number (null or undefined) is         *)
(* NullNumber, the number NaN is NaN, a missing embedding is NullEmbedding *)
(* and a filter that is not supplied is Absent.                            *)
(***************************************************************************)
Null == "null"
NullNumber == -99999
NaN == -99998
NullEmbedding == <<>>
Absent == <<>>
None == [handler |-> "none"]
NoAck == [op |-> "none"]
\* no swipe stack is mounted
Unmounted == [component |-> "none"]
\* useState([]) and useState(0) of MatchesProvider
NoMatches == [matches |-> <<>>, matchesCount |-> 0]

(***************************************************************************)
(* Bounds of the model.                                                    *)
(***************************************************************************)
MaxRows == 1        \* rows of the interaction table a recommendation request starts from
MaxLimit == 2       \* the limits a request asks for are 1..MaxLimit and the default
MaxFilters == 1     \* filters supplied together in one request
MaxClock == 2       \* recording requests served in one behaviour
MaxInflight == 2    \* recording requests between their check and their insert

(***************************************************************************)
(* Program constants.                                                      *)
(***************************************************************************)
DefaultSearchRadius == 100
DefaultLimit == 50
MinLocationResults == 10
EarthRadiusKm == 6371
FallbackNoLocationScore == 300
FallbackScore == 300
ServiceFallbackScore == 500

Users == {"u1", "u2"}
InteractionTypes == {"like", "skip", "superlike"}
PropertyIds == {"p1", "p2", "p3"}

(***************************************************************************)
(* The property table, as ingested.  TableOrder is the order in which a    *)
(* query without ORDER BY returns the rows.                                *)
(***************************************************************************)
TableOrder == <<"p1", "p2", "p3">>

property ==
    [p \in PropertyIds |->
        CASE p = "p1" ->
                [id |-> "p1", latitude |-> 420, longitude |-> -876, price |-> 350,
                 bedrooms |-> 3, bathrooms |-> 2, square_feet |-> 1500,
                 year_built |-> 1990, property_type |-> "single_family",
                 state |-> "IL", cap_rate |-> 5,
                 property_embedding |-> <<30, 40>>, created_at |-> 1]
          [] p = "p2" ->
                [id |-> "p2", latitude |-> 426, longitude |-> -876, price |-> 650,
                 bedrooms |-> 5, bathrooms |-> 3, square_feet |-> 3000,
                 year_built |-> 2015, property_type |-> "condo",
                 state |-> "IL", cap_rate |-> NullNumber,
                 property_embedding |-> <<40, -30>>, created_at |-> 2]
          [] p = "p3" ->
                [id |-> "p3", latitude |-> NullNumber, longitude |-> NullNumber,
                 price |-> 250, bedrooms |-> 1, bathrooms |-> NullNumber, square_feet |-> 800,
                 year_built |-> 1950, property_type |-> "townhouse",
                 state |-> "WI", cap_rate |-> 12,
                 property_embedding |-> NullEmbedding, created_at |-> 3]]

(***************************************************************************)
(* Sequence helpers: slice(0, n) and a stable sort (insertion sort: an     *)
(* element goes after every element whose key is not greater).  filter is  *)
(* SelectSeq.                                                              *)
(***************************************************************************)
Min(a, b) == IF a <= b THEN a ELSE b

Abs(x) == IF x < 0 THEN -x ELSE x

Range(s) == {s[i] : i \in 1..Len(s)}

\* slice without its end: the whole array
SliceNoEnd(s, n) == s

Slice(s, n) == SubSeq(s, 1, Min(Len(s), n))

RECURSIVE InsertByKey(_, _, _)
InsertByKey(x, s, key) ==
    IF s = <<>> THEN <<x>>
    ELSE IF key[x] < key[Head(s)] THEN <<x>> \o s
         ELSE <<Head(s)>> \o InsertByKey(x, Tail(s), key)

\* s sorted by ascending key[x]; elements of equal key keep their order
RECURSIVE SortByKey(_, _)
SortByKey(s, key) ==
    IF s = <<>> THEN <<>>
    ELSE InsertByKey(s[Len(s)], SortByKey(SubSeq(s, 1, Len(s) - 1), key), key)

(***************************************************************************)
(* The inputs of a recommendation request.                                 *)
(***************************************************************************)
QueryPoint == [lat |-> 419, lng |-> -876]

\* a request without a location reads location?.lat as undefined
Locations ==
    [lat : {NullNumber, 0, NaN, QueryPoint.lat}, lng : {QueryPoint.lng}]
        \cup [lat : {QueryPoint.lat}, lng : {0}]

SearchRadii == {50, DefaultSearchRadius}

Limits == (1..MaxLimit) \cup {DefaultLimit}

NoFilters ==
    [priceRange |-> Absent, bedrooms |-> Absent, bathrooms |-> Absent,
     squareFeet |-> Absent, yearBuilt |-> Absent, capRate |-> Absent,
     propertyTypes |-> Absent, states |-> Absent]

FilterNames == DOMAIN NoFilters

\* the filter objects with at most MaxFilters filters supplied
FilterSets ==
    {f \in [priceRange : {Absent, <<200, 600>>}, bedrooms : {Absent, <<2, 4>>},
            bathrooms : {Absent, <<1, 2>>}, squareFeet : {Absent, <<700, 2000>>},
            yearBuilt : {Absent, <<1980, 2020>>}, capRate : {Absent, <<4, 8>>},
            propertyTypes : {Absent, <<"single_family", "townhouse">>},
            states : {Absent, <<"IL">>}] :
        Cardinality({n \in FilterNames : f[n] # Absent}) <= MaxFilters}

(***************************************************************************)
(* JavaScript truthiness of a coordinate and the route's test of the       *)
(* location (!location?.lat || !location?.lng || isNaN(..) || isNaN(..)).  *)
(***************************************************************************)
Falsy(x) == x \in {NullNumber, 0, NaN}

NoValidLocation(location) ==
    \/ Falsy(location.lat)
    \/ Falsy(location.lng)
    \/ location.lat = NaN
    \/ location.lng = NaN

(***************************************************************************)
(* The query builder: gte/lte never match a NULL column; the cap-rate      *)
(* filter is or(cap_rate.is.null, cap_rate.gte.lo, cap_rate.lte.hi); an    *)
(* empty propertyTypes or states list adds no condition.                   *)
(***************************************************************************)
Between(v, r) == v # NullNumber /\ v >= r[1] /\ v <= r[2]

CapRateOr(v, r) == v = NullNumber \/ v >= r[1] \/ v <= r[2]

InList(v, l) == \E i \in 1..Len(l) : l[i] = v

\* the filters with the upper bound of the bedrooms range left out
MatchesFiltersNoBedroomsMax(p, filters) ==
    /\ filters.priceRange # Absent => Between(p.price, filters.priceRange)
    /\ filters.bedrooms # Absent => p.bedrooms >= filters.bedrooms[1]
    /\ filters.bathrooms # Absent => Between(p.bathrooms, filters.bathrooms)
    /\ filters.squareFeet # Absent => Between(p.square_feet, filters.squareFeet)
    /\ filters.yearBuilt # Absent => Between(p.year_built, filters.yearBuilt)
    /\ filters.capRate # Absent => CapRateOr(p.cap_rate, filters.capRate)
    /\ (filters.propertyTypes # Absent /\ Len(filters.propertyTypes) > 0)
            => InList(p.property_type, filters.propertyTypes)
    /\ (filters.states # Absent /\ Len(filters.states) > 0)
            => InList(p.state, filters.states)

MatchesFilters(p, filters) ==
    /\ filters.priceRange # Absent => Between(p.price, filters.priceRange)
    /\ filters.bedrooms # Absent => Between(p.bedrooms, filters.bedrooms)
    /\ filters.bathrooms # Absent => Between(p.bathrooms, filters.bathrooms)
    /\ filters.squareFeet # Absent => Between(p.square_feet, filters.squareFeet)
    /\ filters.yearBuilt # Absent => Between(p.year_built, filters.yearBuilt)
    /\ filters.capRate # Absent => CapRateOr(p.cap_rate, filters.capRate)
    /\ (filters.propertyTypes # Absent /\ Len(filters.propertyTypes) > 0)
            => InList(p.property_type, filters.propertyTypes)
    /\ (filters.states # Absent /\ Len(filters.states) > 0)
            => InList(p.state, filters.states)

\* .not('id', 'in', seenPropertyIds), added only when the list is not empty
NotSeen(p, seenPropertyIds) == p.id \notin seenPropertyIds

\* the rows of the property table in table order
AllProperties == [i \in 1..Len(TableOrder) |-> property[TableOrder[i]]]

\* .order('created_at', { ascending: false })
NewestFirst(rows) == SortByKey(rows, [r \in Range(rows) |-> -r.created_at])

\* interaction rows of the user with kind like or skip, as property ids;
\* a failed read leaves data undefined and the list empty
SeenPropertyIds(userId, failed) ==
    IF failed THEN {}
    ELSE {i.property_id : i \in {r \in interaction :
              r.user_id = userId /\ r.interaction_type \in {"like", "skip"}}}

\* the location query: rows with coordinates that pass the filters, unseen
LocationQuery(filters, seenPropertyIds) ==
    LET Keep(p) == /\ p.latitude # NullNumber
                   /\ p.longitude # NullNumber
                   /\ MatchesFilters(p, filters)
                   /\ NotSeen(p, seenPropertyIds)
    IN  SelectSeq(AllProperties, Keep)

\* the fallback query: rows that pass the filters, unseen, newest first
FallbackQuery(filters, seenPropertyIds) ==
    LET Keep(p) == MatchesFilters(p, filters) /\ NotSeen(p, seenPropertyIds)
    IN  NewestFirst(SelectSeq(AllProperties, Keep))

(***************************************************************************)
(* calculateDistance: the haversine distance in metres.  Every coordinate  *)
(* of the model lies on the meridian of QueryPoint, where dLon = 0, a =         *)
(* sin^2(dLat/2) and c = |dLat| in radians, so distance = R * |dLat| *     *)
(* pi / 180; pi is taken as 3.142 and latitudes are in tenths of a degree. *)
(***************************************************************************)
calculateDistance(lat1, lon1, lat2, lon2) ==
    CASE lon1 = lon2 -> (EarthRadiusKm * 3142 * Abs(lat2 - lat1)) \div 1800

Recommendation(p, score, distance, reason) ==
    [id |-> p.id, similarity_score |-> score, distance_km |-> distance,
     reason |-> reason]

\* lines 229-259: map to a scored row or null, drop the nulls, sort by distance
LocationScored(rows, location, searchRadius) ==
    LET Dist(p) == calculateDistance(location.lat, location.lng,
                                     p.latitude, p.longitude)
        Within(p) == Dist(p) <= searchRadius * 1000
        inside == SelectSeq(rows, Within)
        scored == [i \in 1..Len(inside) |->
                      Recommendation(inside[i],
                                     1000 - (Dist(inside[i]) \div searchRadius),
                                     Dist(inside[i]), "location_based")]
    IN  SortByKey(scored, [r \in Range(scored) |-> r.distance_km])

FallbackRecommendations(rows, limit, score, reason) ==
    LET cut == Slice(rows, limit)
    IN  [i \in 1..Len(cut) |-> Recommendation(cut[i], score, NullNumber, reason)]

Ok(recs) == [status |-> "ok", recommendations |-> recs]

Threw == [status |-> "threw", recommendations |-> <<>>]

RouteFailures == {"none", "interaction", "location_query", "fallback_query"}

(***************************************************************************)
(* POST /api/recommendations.  fail names the store read that fails.       *)
(***************************************************************************)
RecommendationsPOST(userId, location, searchRadius, filters, limit, fail) ==
    LET seenPropertyIds == SeenPropertyIds(userId, fail = "interaction")
    IN  IF NoValidLocation(location)
        THEN IF fail = "fallback_query" THEN Ok(<<>>)
             ELSE Ok(FallbackRecommendations(FallbackQuery(filters, seenPropertyIds),
                         limit, FallbackNoLocationScore, "fallback_no_location"))
        ELSE IF fail = "location_query" THEN Ok(<<>>)
        ELSE LET locationProperties == LocationQuery(filters, seenPropertyIds)
                 recommendations ==
                     LocationScored(locationProperties, location, searchRadius)
             IN  IF Len(locationProperties) = 0 THEN Ok(<<>>)
                 ELSE IF Len(recommendations) >= Min(limit, MinLocationResults)
                 THEN Ok(Slice(recommendations, limit))
                 ELSE IF fail = "fallback_query" THEN Ok(<<>>)
                 ELSE Ok(FallbackRecommendations(
                             FallbackQuery(filters, seenPropertyIds),
                             limit, FallbackScore, "fallback"))

(***************************************************************************)
(* BackendService.  The service is modelled as configured (useSupabase).   *)
(***************************************************************************)
ServiceFailures ==
    {"none", "interaction", "app_user", "edge", "property_query", "property_store"}

\* getProperties: newest first, range(offset, offset + limit - 1), offset 0;
\* a store error is thrown to the caller
getProperties(limit, storeDown) ==
    IF storeDown THEN Threw
    ELSE LET rows == Slice(NewestFirst(AllProperties), limit)
         IN  Ok([i \in 1..Len(rows) |-> Recommendation(rows[i], NullNumber, NullNumber, Null)])

RECURSIVE SqrtBetween(_, _, _)
SqrtBetween(n, lo, hi) ==
    IF lo >= hi THEN lo
    ELSE LET mid == (lo + hi + 1) \div 2
         IN  IF mid * mid <= n THEN SqrtBetween(n, mid, hi)
             ELSE SqrtBetween(n, lo, mid - 1)

\* Math.sqrt, rounded down to an integer
Sqrt(n) == SqrtBetween(n, 0, Min(n, 46340))

IsArray(v) == v # NullEmbedding

\* a stored text that JSON.parse rejects (line 211 or 212 throws)
Unparsable == <<NaN>>

RECURSIVE SumTo(_, _)
SumTo(n, term) == IF n = 0 THEN 0 ELSE term[n] + SumTo(n - 1, term)

\* scoring without the guard on a zero magnitude: 0 / 0 is NaN
calculateVectorSimilarityUnguarded(userEmbedding, propertyEmbedding) ==
    IF userEmbedding = Unparsable \/ propertyEmbedding = Unparsable THEN 500
    ELSE IF ~IsArray(userEmbedding) \/ ~IsArray(propertyEmbedding) THEN 500
    ELSE LET minLength == Min(Len(userEmbedding), Len(propertyEmbedding))
             dotProduct == SumTo(minLength, [i \in 1..minLength |->
                               userEmbedding[i] * propertyEmbedding[i]])
             userSquares == SumTo(minLength, [i \in 1..minLength |->
                               userEmbedding[i] * userEmbedding[i]])
             propertySquares == SumTo(minLength, [i \in 1..minLength |->
                               propertyEmbedding[i] * propertyEmbedding[i]])
         IN  IF userSquares = 0 \/ propertySquares = 0 THEN NaN
             ELSE LET magnitudes == Sqrt(userSquares * propertySquares)
                      similarity == (1000 * dotProduct) \div magnitudes
                  IN  (similarity + 1000) \div 2

\* calculateVectorSimilarity, in thousandths: (cosine + 1) / 2 over the common
\* prefix, 0.5 for a value that is no array, that does not parse, or of
\* magnitude zero
calculateVectorSimilarity(userEmbedding, propertyEmbedding) ==
    IF userEmbedding = Unparsable \/ propertyEmbedding = Unparsable THEN 500
    ELSE IF ~IsArray(userEmbedding) \/ ~IsArray(propertyEmbedding) THEN 500
    ELSE LET minLength == Min(Len(userEmbedding), Len(propertyEmbedding))
             dotProduct == SumTo(minLength, [i \in 1..minLength |->
                               userEmbedding[i] * propertyEmbedding[i]])
             userSquares == SumTo(minLength, [i \in 1..minLength |->
                               userEmbedding[i] * userEmbedding[i]])
             propertySquares == SumTo(minLength, [i \in 1..minLength |->
                               propertyEmbedding[i] * propertyEmbedding[i]])
         IN  IF userSquares = 0 \/ propertySquares = 0 THEN 500
             ELSE LET magnitudes == Sqrt(userSquares * propertySquares)
                      similarity == (1000 * dotProduct) \div magnitudes
                  IN  (similarity + 1000) \div 2

\* lines 78-106: properties with an embedding, unseen, scored, best first
VectorScored(userEmbedding, seenPropertyIds, limit) ==
    LET Keep(p) == p.property_embedding # NullEmbedding /\ NotSeen(p, seenPropertyIds)
        allProperties == SelectSeq(AllProperties, Keep)
        scored == [i \in 1..Len(allProperties) |->
                      Recommendation(allProperties[i],
                          calculateVectorSimilarity(userEmbedding,
                              allProperties[i].property_embedding),
                          NullNumber, "vector_similarity")]
    IN  Slice(SortByKey(scored, [r \in Range(scored) |-> -r.similarity_score]),
              limit)

RECURSIVE SetToSeq(_)
SetToSeq(S) ==
    IF S = {} THEN <<>>
    ELSE LET x == CHOOSE y \in S : TRUE IN <<x>> \o SetToSeq(S \ {x})

\* lines 117-121: the edges, highest similarity_score first, at most 2 * limit
EdgesQuery(limit) ==
    LET rows == SetToSeq(edge)
    IN  Slice(SortByKey(rows, [r \in Range(rows) |-> -r.similarity_score]),
              limit * 2)

\* lines 150-163: the first edge of each unseen target, until limit targets
RECURSIVE GraphPick(_, _, _, _)
GraphPick(edges, seenPropertyIds, limit, uniqueProperties) ==
    IF edges = <<>> \/ Len(uniqueProperties) >= limit THEN uniqueProperties
    ELSE LET e == Head(edges)
             target == e.target_property_id
             taken == {uniqueProperties[i].id : i \in 1..Len(uniqueProperties)}
         IN  IF target \in PropertyIds /\ target \notin seenPropertyIds
                  /\ target \notin taken
             THEN GraphPick(Tail(edges), seenPropertyIds, limit,
                      Append(uniqueProperties,
                          Recommendation(property[target], e.similarity_score,
                                         NullNumber, "graph_traversal")))
             ELSE GraphPick(Tail(edges), seenPropertyIds, limit, uniqueProperties)

\* lines 178-199: newest first, unseen, at most limit, scored 0.5
ServiceFallback(seenPropertyIds, limit) ==
    LET Keep(p) == NotSeen(p, seenPropertyIds)
    IN  FallbackRecommendations(NewestFirst(SelectSeq(AllProperties, Keep)),
                                limit, ServiceFallbackScore, "fallback")

(***************************************************************************)
(* BackendService.getRecommendations.  fail names the store read that      *)
(* fails: property_query fails the strategy's own read of the property     *)
(* table, property_store fails every read of it.                           *)
(***************************************************************************)
getRecommendations(userId, limit, fail) ==
    LET seenPropertyIds == SeenPropertyIds(userId, fail = "interaction")
        userEmbedding == IF fail = "app_user" THEN NullEmbedding ELSE user_embedding[userId]
        propertiesError == fail \in {"property_query", "property_store"}
        recover == getProperties(limit, fail = "property_store")
        vector == VectorScored(userEmbedding, seenPropertyIds, limit)
        edges == EdgesQuery(limit)
        graph == GraphPick(edges, seenPropertyIds, limit, <<>>)
    IN  IF userEmbedding # NullEmbedding /\ propertiesError THEN recover
        ELSE IF userEmbedding # NullEmbedding /\ Len(vector) > 0 THEN Ok(vector)
        ELSE IF fail = "edge" THEN recover
        ELSE IF Len(edges) = 0 THEN recover
        ELSE IF propertiesError THEN recover
        ELSE IF Len(graph) > 0 THEN Ok(graph)
        ELSE Ok(ServiceFallback(seenPropertyIds, limit))

(***************************************************************************)
(* The stores.  An interaction row is (user_id, property_id,               *)
(* interaction_type, created_at); the table has UNIQUE(user_id,            *)
(* property_id).  Edges are ingested offline.                              *)
(***************************************************************************)
\* the create-user endpoint gives a new user the email user-<id>@example.com; the
\* recording endpoint of /api/interactions writes the same email for every user
OwnEmail == [u \in Users |-> IF u = "u1" THEN "user-u1@example.com"
                                        ELSE "user-u2@example.com"]

DemoEmail == "demo@realagent.com"

Row(u, p, k, t) ==
    [user_id |-> u, property_id |-> p, interaction_type |-> k, created_at |-> t]

UniquePairs(rows) ==
    \A r1, r2 \in rows :
        (r1.user_id = r2.user_id /\ r1.property_id = r2.property_id) => r1 = r2

SampleEdges ==
    {[source_property_id |-> "p1", target_property_id |-> "p2", similarity_score |-> 900],
     [source_property_id |-> "p3", target_property_id |-> "p2", similarity_score |-> 500],
     [source_property_id |-> "p2", target_property_id |-> "p3", similarity_score |-> 700],
     [source_property_id |-> "p2", target_property_id |-> "p1", similarity_score |-> 600]}

\* what the user has liked or skipped, whatever the request manages to read
LikedOrSkipped(userId) == SeenPropertyIds(userId, FALSE)

(***************************************************************************)
(* Recommendation requests.  A request is served in one step; its answer   *)
(* stays in response, with the request and the user's like/skip log at the *)
(* time, until it is delivered.                                            *)
(***************************************************************************)
Answer(handler, userId, location, searchRadius, filters, limit, fail, result) ==
    [handler |-> handler, userId |-> userId, location |-> location,
     searchRadius |-> searchRadius, filters |-> filters, limit |-> limit,
     fail |-> fail, seen |-> LikedOrSkipped(userId),
     embedding |-> user_embedding[userId], edges |-> edge,
     status |-> result.status, recommendations |-> result.recommendations]

NoLocation == [lat |-> NullNumber, lng |-> NullNumber]

\* a request that also logs what it returns as seen
RouteRequestMarksSeen ==
    /\ response = None
    /\ \E userId \in Users, location \in Locations, searchRadius \in SearchRadii,
          filters \in FilterSets, limit \in Limits, fail \in RouteFailures :
          LET result == RecommendationsPOST(userId, location, searchRadius,
                                            filters, limit, fail)
          IN  /\ response' = Answer("route", userId, location, searchRadius,
                                    filters, limit, fail, result)
              /\ interaction' = interaction \cup
                     {Row(userId, result.recommendations[i].id, "skip", clock) :
                          i \in 1..Len(result.recommendations)}
    /\ UNCHANGED <<stack, provider, user_embedding, app_user, edge, clock, inflight, ack>>

RouteRequest ==
    /\ response = None
    /\ \E userId \in Users, location \in Locations, searchRadius \in SearchRadii,
          filters \in FilterSets, limit \in Limits, fail \in RouteFailures :
          response' = Answer("route", userId, location, searchRadius, filters, limit,
                             fail, RecommendationsPOST(userId, location, searchRadius,
                                                       filters, limit, fail))
    /\ UNCHANGED <<stack, provider, interaction, user_embedding, app_user, edge, clock, inflight, ack>>

ServiceRequest ==
    /\ response = None
    /\ \E userId \in Users, limit \in Limits, fail \in ServiceFailures :
          response' = Answer("service", userId, NoLocation, DefaultSearchRadius,
                             NoFilters, limit, fail,
                             getRecommendations(userId, limit, fail))
    /\ UNCHANGED <<stack, provider, interaction, user_embedding, app_user, edge, clock, inflight, ack>>

Deliver ==
    /\ response # None
    /\ response' = None
    /\ UNCHANGED <<stack, provider, interaction, user_embedding, app_user, edge, clock, inflight, ack>>

\* the logs a request can find: at most MaxRows rows, one per (user, property)
StartingLogs ==
    {rows \in SUBSET {Row(u, p, k, 0) : u \in Users, p \in PropertyIds,
                                        k \in InteractionTypes} :
        Cardinality(rows) <= MaxRows /\ UniquePairs(rows)}

InitRec ==
    /\ interaction \in StartingLogs
    /\ app_user = [u \in Users |-> OwnEmail[u]]
    /\ user_embedding \in [Users -> {NullEmbedding, property["p1"].property_embedding}]
    /\ edge \in {{}, SampleEdges}
    /\ clock = 0
    /\ inflight = {}
    /\ ack = NoAck
    /\ response = None
    /\ stack = Unmounted
    /\ provider = NoMatches

NextRec == RouteRequest \/ ServiceRequest \/ Deliver

SpecRec == InitRec /\ [][NextRec]_vars

(***************************************************************************)
(* The interaction log and the user embedding.                             *)
(***************************************************************************)
RowsOf(userId, propertyId) ==
    {r \in interaction : r.user_id = userId /\ r.property_id = propertyId}

\* upsert(..., { onConflict: 'user_id,property_id' }): INSERT ... ON CONFLICT
\* DO UPDATE, which rewrites the row of the pair
UpsertRow(row) ==
    (interaction \ RowsOf(row.user_id, row.property_id)) \cup {row}

\* the sum of the vectors of the set, component by component
RECURSIVE VectorSum(_, _)
VectorSum(vectors, size) ==
    IF vectors = {} THEN [i \in 1..size |-> 0]
    ELSE LET v == CHOOSE x \in vectors : TRUE
             rest == VectorSum(vectors \ {v}, size)
         IN  [i \in 1..size |-> v[i] + rest[i]]

\* the embeddings of the properties the user has an interaction of these
\* kinds with; rows are distinct properties, so equal vectors would count
\* twice: the property table gives every property its own vector
LikedOrSkippedEmbeddings(rows, userId, kinds) ==
    {property[r.property_id].property_embedding :
        r \in {x \in rows : /\ x.user_id = userId
                            /\ x.interaction_type \in kinds \cup {"skip"}
                            /\ property[x.property_id].property_embedding
                                   # NullEmbedding}}

LikedEmbeddings(rows, userId, kinds) ==
    {property[r.property_id].property_embedding :
        r \in {x \in rows : /\ x.user_id = userId
                            /\ x.interaction_type \in kinds
                            /\ property[x.property_id].property_embedding
                                   # NullEmbedding}}

\* updateUserEmbedding of interactions/route.ts and POST
\* /api/update-user-preferences: the plain average over the rows of kind like
AverageOfLiked(rows, userId, current) ==
    LET embeddings == LikedEmbeddings(rows, userId, {"like"})
        n == Cardinality(embeddings)
        size == Len(CHOOSE e \in embeddings : TRUE)
        sum == VectorSum(embeddings, size)
    IN  IF n = 0 THEN current
        ELSE [i \in 1..size |-> sum[i] \div n]

\* updateUserEmbedding of user-interactions/route.ts: like and superlike,
\* 70% of the stored embedding plus 30% of the average
WeightedOfLiked(rows, userId, current) ==
    LET embeddings == LikedEmbeddings(rows, userId, {"like", "superlike"})
        n == Cardinality(embeddings)
        size == Len(CHOOSE e \in embeddings : TRUE)
        sum == VectorSum(embeddings, size)
    IN  IF n = 0 THEN current
        ELSE IF current = NullEmbedding THEN [i \in 1..size |-> sum[i] \div n]
        ELSE [i \in 1..size |-> (7 * current[i] * n + 3 * sum[i]) \div (10 * n)]

Positive(interactionType) == interactionType \in {"like", "superlike"}

\* app_user.upsert({ id, email: 'demo@realagent.com', ... }): INSERT ... ON
\* CONFLICT (id) DO UPDATE; email is UNIQUE, so the statement fails when
\* another user's row holds the email, and the handler does not look at the
\* result
EnsureUser(users, userId) ==
    IF \E u \in Users \ {userId} : users[u] = DemoEmail THEN users
    ELSE [users EXCEPT ![userId] = DemoEmail]

\* interaction.user_id REFERENCES app_user(id): a row of a user without an
\* app_user row is rejected (23503)
UserExists(users, userId) == users[userId] # Null

\* the answer of the upsert variant: the interaction upsert fails only on the
\* reference to app_user, and that error is thrown
UpsertStatus(users, userId) ==
    IF UserExists(EnsureUser(users, userId), userId) THEN "ok" ELSE "error"

\* the answer of the plain insert: it fails on UNIQUE(user_id, property_id)
\* and on the reference to app_user
InsertStatus(users, rows, userId, propertyId) ==
    IF \/ \E r \in rows : r.user_id = userId /\ r.property_id = propertyId
       \/ ~UserExists(users, userId)
    THEN "error" ELSE "ok"

RecordAck(endpoint, userId, propertyId, interactionType, status) ==
    [op |-> "record", endpoint |-> endpoint, userId |-> userId,
     propertyId |-> propertyId, interactionType |-> interactionType,
     at |-> clock + 1, status |-> status]

(***************************************************************************)
(* POST /api/interactions, the upsert variant.                             *)
(***************************************************************************)
UpsertPOST ==
    /\ clock < MaxClock
    /\ \E userId \in Users, propertyId \in PropertyIds,
          interactionType \in InteractionTypes :
          LET users == EnsureUser(app_user, userId)
              rows == UpsertRow(Row(userId, propertyId, interactionType, clock + 1))
          IN  /\ app_user' = users
              /\ IF UpsertStatus(app_user, userId) = "error"
                 THEN \* the upsert's error is not 23505: thrown, 500
                      /\ ack' = RecordAck("upsert", userId, propertyId,
                                          interactionType, "error")
                      /\ UNCHANGED <<interaction, user_embedding>>
                 ELSE /\ interaction' = rows
                      /\ user_embedding' =
                            IF Positive(interactionType)
                            THEN [user_embedding EXCEPT ![userId] =
                                      AverageOfLiked(rows, userId, @)]
                            ELSE user_embedding
                      /\ ack' = RecordAck("upsert", userId, propertyId,
                                          interactionType, "ok")
    /\ clock' = clock + 1
    /\ UNCHANGED <<stack, provider, edge, inflight, response>>

(***************************************************************************)
(* POST /api/interactions, the check-then-insert variant: the select of    *)
(* the pair, then, after the await, the insert and the rest.               *)
(***************************************************************************)
CheckPOST ==
    /\ clock < MaxClock
    /\ Cardinality(inflight) < MaxInflight
    /\ \E userId \in Users, propertyId \in PropertyIds,
          interactionType \in InteractionTypes :
          /\ app_user' = EnsureUser(app_user, userId)
          /\ inflight' = inflight \cup
                 {[userId |-> userId, propertyId |-> propertyId,
                   interactionType |-> interactionType, at |-> clock + 1,
                   existingInteraction |-> RowsOf(userId, propertyId) # {}]}
    /\ clock' = clock + 1
    /\ UNCHANGED <<stack, provider, interaction, user_embedding, edge, ack, response>>

CheckAck(req, status) ==
    [op |-> "record", endpoint |-> "check", userId |-> req.userId,
     propertyId |-> req.propertyId, interactionType |-> req.interactionType,
     at |-> req.at, status |-> status]

InsertAfterCheck ==
    \E req \in inflight :
        LET conflict == InsertStatus(app_user, interaction, req.userId,
                                     req.propertyId) = "error"
            rows == IF req.existingInteraction THEN interaction
                    ELSE interaction \cup {Row(req.userId, req.propertyId,
                                               req.interactionType, req.at)}
        IN  /\ inflight' = inflight \ {req}
            /\ IF ~req.existingInteraction /\ conflict
               THEN \* the insert violates UNIQUE(user_id, property_id) or the
                    \* reference to app_user: thrown, 500
                    /\ ack' = CheckAck(req, "error")
                    /\ UNCHANGED <<interaction, user_embedding>>
               ELSE /\ interaction' = rows
                    /\ user_embedding' =
                          IF Positive(req.interactionType)
                          THEN [user_embedding EXCEPT ![req.userId] =
                                    AverageOfLiked(rows, req.userId, @)]
                          ELSE user_embedding
                    /\ ack' = CheckAck(req, "ok")
            /\ UNCHANGED <<stack, provider, app_user, edge, clock, response>>

(***************************************************************************)
(* POST /api/user-interactions with a property and a kind: a plain insert. *)
(***************************************************************************)
InsertPOST ==
    /\ clock < MaxClock
    /\ \E userId \in Users, propertyId \in PropertyIds,
          interactionType \in InteractionTypes :
          LET rows == interaction \cup
                          {Row(userId, propertyId, interactionType, clock + 1)}
          IN  IF InsertStatus(app_user, interaction, userId, propertyId) = "error"
              THEN \* interactionError is thrown: 500
                   /\ ack' = RecordAck("insert", userId, propertyId,
                                       interactionType, "error")
                   /\ UNCHANGED <<interaction, user_embedding>>
              ELSE /\ interaction' = rows
                   /\ user_embedding' =
                         IF Positive(interactionType)
                         THEN [user_embedding EXCEPT ![userId] =
                                   WeightedOfLiked(rows, userId, @)]
                         ELSE user_embedding
                   /\ ack' = RecordAck("insert", userId, propertyId,
                                       interactionType, "ok")
    /\ clock' = clock + 1
    /\ UNCHANGED <<stack, provider, app_user, edge, inflight, response>>

(***************************************************************************)
(* The create-user endpoint: a row with a fresh id and its own email.      *)
(***************************************************************************)
CreateUserPOST ==
    /\ \E userId \in Users :
          /\ app_user[userId] = Null
          /\ app_user' = [app_user EXCEPT ![userId] = OwnEmail[userId]]
          /\ ack' = [op |-> "create_user", userId |-> userId, status |-> "ok"]
    /\ UNCHANGED <<stack, provider, interaction, user_embedding, edge, clock, inflight, response>>

(***************************************************************************)
(* The reset endpoint: delete the user's interactions, then set the user's *)
(* embedding to null.                                                      *)
(***************************************************************************)
ResetPOST ==
    /\ \E userId \in Users :
          /\ interaction' = {r \in interaction : r.user_id # userId}
          /\ user_embedding' = [user_embedding EXCEPT ![userId] = NullEmbedding]
          /\ ack' = [op |-> "reset", userId |-> userId, status |-> "ok",
                     deleted |-> {r \in interaction : r.user_id = userId}]
    /\ UNCHANGED <<stack, provider, app_user, edge, clock, inflight, response>>

(***************************************************************************)
(* DELETE of a match: delete().eq('id', interactionId).  The request names *)
(* only the interaction; userId is the user whose matches list sent it,    *)
(* which the handler never learns.                                         *)
(***************************************************************************)
RemoveMatchDELETE ==
    /\ \E userId \in Users, row \in interaction :
          /\ interaction' = interaction \ {row}
          /\ ack' = [op |-> "remove_match", userId |-> userId, status |-> "ok",
                     deleted |-> {row}]
    /\ UNCHANGED <<stack, provider, user_embedding, app_user, edge, clock, inflight, response>>

(***************************************************************************)
(* POST /api/update-user-preferences: the plain average of the liked       *)
(* properties' embeddings, stored when there is one.                       *)
(***************************************************************************)
UpdatePreferencesPOST ==
    /\ \E userId \in Users :
          /\ user_embedding' = [user_embedding EXCEPT ![userId] =
                                    AverageOfLiked(interaction, userId, @)]
          /\ ack' = [op |-> "update_preferences", userId |-> userId,
                     status |-> "ok", at |-> clock]
    /\ UNCHANGED <<stack, provider, interaction, app_user, edge, clock, inflight, response>>

Init ==
    /\ interaction = {}
    /\ app_user = [u \in Users |-> Null]
    /\ user_embedding = [u \in Users |-> NullEmbedding]
    /\ edge \in {{}, SampleEdges}
    /\ clock = 0
    /\ inflight = {}
    /\ ack = NoAck
    /\ response = None
    /\ stack = Unmounted
    /\ provider = NoMatches

Next ==
    \/ UpsertPOST
    \/ CheckPOST
    \/ InsertAfterCheck
    \/ InsertPOST
    \/ CreateUserPOST
    \/ ResetPOST
    \/ RemoveMatchDELETE
    \/ UpdatePreferencesPOST

Spec == Init /\ [][Next]_vars

(***************************************************************************)
(* What the claims about a recording request speak of.  A step answers a   *)
(* recording request when it changes ack; the request it answers is the    *)
(* one that leaves inflight, if it went through the check first.           *)
(***************************************************************************)
Recorded == ack' # ack /\ ack'.op = "record"

Entries(rows) == {<<r.user_id, r.property_id, r.interaction_type>> : r \in rows}

PairRows(rows, a) ==
    {r \in rows : r.user_id = a.userId /\ r.property_id = a.propertyId}

\* the check of the request, if it made one, found the row of the pair
CheckFoundRow == \A req \in inflight \ inflight' : req.existingInteraction

\* the check of the request, if it made one, found no row of the pair
CheckFoundNone == \A req \in inflight \ inflight' : ~req.existingInteraction

(***************************************************************************)
(* C2: recording a (user, property, kind) that is already in the log       *)
(* leaves the same entries and is answered with success.                   *)
(***************************************************************************)
C2_RecordTwice ==
    [][(/\ Recorded
        /\ <<ack'.userId, ack'.propertyId, ack'.interactionType>>
               \in Entries(interaction)
        /\ CheckFoundRow)
       => (ack'.status = "ok" /\ Entries(interaction') = Entries(interaction))]_vars

(***************************************************************************)
(* C3: recording another kind for a pair that already has an interaction   *)
(* changes nothing in the log and is answered with success.                *)
(***************************************************************************)
C3_OtherKindNoOp ==
    [][(/\ Recorded
        /\ \E r \in PairRows(interaction, ack') :
               r.interaction_type # ack'.interactionType
        /\ CheckFoundRow)
       => (ack'.status = "ok" /\ interaction' = interaction)]_vars

(***************************************************************************)
(* C4: two requests through the check-then-insert handler for the same new *)
(* pair, the second finding the pair new although the first was answered   *)
(* just before it: both are answered with success and the pair has exactly *)
(* one entry afterwards.                                                   *)
(***************************************************************************)
C4_ConcurrentNewPair ==
    [][(/\ Recorded
        /\ ack'.endpoint = "check"
        /\ CheckFoundNone
        /\ ack.op = "record"
        /\ ack.endpoint = "check"
        /\ ack.userId = ack'.userId
        /\ ack.propertyId = ack'.propertyId
        /\ UserExists(app_user, ack'.userId))
       => (/\ ack.status = "ok"
           /\ ack'.status = "ok"
           /\ Cardinality(PairRows(interaction', ack')) = 1)]_vars

(***************************************************************************)
(* What the claims about a recommendation answer speak of.                 *)
(***************************************************************************)
Answered == response # None

Returned == {response.recommendations[i].id : i \in 1..Len(response.recommendations)}

Reasons == {response.recommendations[i].reason : i \in 1..Len(response.recommendations)}

\* a coordinate pair of two finite numbers that the route also takes as one
ProximityRequest ==
    /\ response.handler = "route"
    /\ response.location.lat \notin {NullNumber, NaN, 0}
    /\ response.location.lng \notin {NullNumber, NaN, 0}

\* two finite numbers
FiniteCoordinates ==
    /\ response.location.lat \notin {NullNumber, NaN}
    /\ response.location.lng \notin {NullNumber, NaN}

InRange(v, r) == v # NullNumber /\ r[1] <= v /\ v <= r[2]

OneOf(v, l) == v \in Range(l)

\* p satisfies every range and set-membership filter supplied in f
SatisfiesSupplied(p, f) ==
    /\ f.priceRange = Absent \/ InRange(p.price, f.priceRange)
    /\ f.bedrooms = Absent \/ InRange(p.bedrooms, f.bedrooms)
    /\ f.bathrooms = Absent \/ InRange(p.bathrooms, f.bathrooms)
    /\ f.squareFeet = Absent \/ InRange(p.square_feet, f.squareFeet)
    /\ f.yearBuilt = Absent \/ InRange(p.year_built, f.yearBuilt)
    /\ f.propertyTypes = Absent \/ OneOf(p.property_type, f.propertyTypes)
    /\ f.states = Absent \/ OneOf(p.state, f.states)

\* p has no cap rate or one inside the supplied range
CapRateTolerated(p, f) ==
    f.capRate = Absent \/ p.cap_rate = NullNumber \/ InRange(p.cap_rate, f.capRate)

\* the candidates of the request: pass the filters, not liked or skipped
Candidates ==
    {p \in PropertyIds :
        /\ SatisfiesSupplied(property[p], response.filters)
        /\ CapRateTolerated(property[p], response.filters)
        /\ p \notin response.seen}

HasCoordinates(p) ==
    property[p].latitude # NullNumber /\ property[p].longitude # NullNumber

DistanceFromQuery(p) ==
    calculateDistance(response.location.lat, response.location.lng,
                      property[p].latitude, property[p].longitude)

WithinRadius(p) ==
    HasCoordinates(p) /\ DistanceFromQuery(p) <= response.searchRadius * 1000

(***************************************************************************)
(* C1: no returned property is in the requesting user's like/skip log, in  *)
(* the route and in the service, also when a store read fails.             *)
(***************************************************************************)
C1_SeenExcluded == Answered => Returned \cap response.seen = {}

(***************************************************************************)
(* C5: the results come from the first strategy of the ladder location,    *)
(* vector, graph, fallback whose precondition holds (stated for the first  *)
(* result, for requests whose store reads all succeed and whose            *)
(* coordinates, when given, are not zero): vector-scored                   *)
(* with no coordinates and a stored embedding, graph-scored with neither   *)
(* and an edge, fallback only when no higher mode applies.                 *)
(***************************************************************************)
VectorCandidates ==
    {p \in PropertyIds :
        property[p].property_embedding # NullEmbedding /\ p \notin response.seen}

GraphCandidates ==
    {e.target_property_id : e \in response.edges} \ response.seen

C5_StrategyLadder ==
    (Answered /\ response.fail = "none" /\ response.recommendations # <<>>
        /\ response.location.lat # 0 /\ response.location.lng # 0) =>
        LET first == response.recommendations[1].reason
            embedded == response.embedding # NullEmbedding
        IN  /\ (~FiniteCoordinates /\ embedded /\ VectorCandidates # {})
                    => first = "vector_similarity"
            /\ (~FiniteCoordinates /\ ~embedded /\ GraphCandidates # {})
                    => first = "graph_traversal"
            /\ first \in {"fallback", "fallback_no_location"}
                    => (~FiniteCoordinates /\ ~embedded /\ response.edges = {})

(***************************************************************************)
(* C6: with no stored embedding, no valid coordinates and an empty edge    *)
(* store, every returned recommendation is tagged fallback (stated for     *)
(* requests whose store reads all succeed).                                *)
(***************************************************************************)
C6_FallbackTag ==
    (Answered /\ response.fail = "none" /\ response.embedding = NullEmbedding /\ ~FiniteCoordinates
        /\ response.edges = {})
    => Reasons \subseteq {"fallback"}

(***************************************************************************)
(* C7: with valid coordinates and radius r, no property farther than r     *)
(* from the query point is in the answer (stated for requests whose store  *)
(* reads all succeed).                                                     *)
(***************************************************************************)
C7_RadiusExclusion ==
    (Answered /\ ProximityRequest /\ response.fail = "none") =>
        \A p \in Returned : HasCoordinates(p) => WithinRadius(p)

(***************************************************************************)
(* C8: when some property passes the filters and is not liked or skipped,  *)
(* and the limit is positive, the answer is not empty (stated for requests *)
(* whose store reads all succeed).                                         *)
(***************************************************************************)
C8_NeverEmpty ==
    (Answered /\ response.fail = "none" /\ response.limit > 0 /\ Candidates # {})
    => response.recommendations # <<>>

(***************************************************************************)
(* C9: when location scoring yields fewer than min(limit, 10) results, the *)
(* answer holds every location-scored result, tagged by proximity, and no  *)
(* property id twice.                                                      *)
(***************************************************************************)
LocationResults == {p \in Candidates : WithinRadius(p)}

NoDuplicates ==
    \A i, j \in 1..Len(response.recommendations) :
        response.recommendations[i].id = response.recommendations[j].id => i = j

C9_MergedFallThrough ==
    (Answered /\ ProximityRequest /\ response.fail = "none"
        /\ Cardinality(LocationResults) < Min(response.limit, MinLocationResults))
    => /\ \A p \in LocationResults :
              \E i \in 1..Len(response.recommendations) :
                  /\ response.recommendations[i].id = p
                  /\ response.recommendations[i].reason = "location_based"
       /\ NoDuplicates

(***************************************************************************)
(* C10: every property the route returns satisfies every supplied range    *)
(* and set-membership filter (price, bedrooms, bathrooms, square feet,     *)
(* year built, property type, state), in location and fallback results     *)
(* alike; and an absent filter excludes nothing: a fallback answer with    *)
(* room for every property holds every candidate.                          *)
(***************************************************************************)
C10_FiltersRespected ==
    (Answered /\ response.handler = "route") =>
        /\ \A p \in Returned : SatisfiesSupplied(property[p], response.filters)
        /\ (Reasons \cap {"fallback", "fallback_no_location"} # {}
                /\ response.limit >= Cardinality(PropertyIds))
            => Candidates \subseteq Returned

\* a location answer under a supplied price range that leaves out an unseen
\* property within the radius because its price is outside the range
C10_Witness ==
    /\ Answered
    /\ response.handler = "route"
    /\ response.filters.priceRange # Absent
    /\ Reasons = {"location_based"}
    /\ \E p \in PropertyIds \ response.seen :
           /\ WithinRadius(p)
           /\ ~InRange(property[p].price, response.filters.priceRange)
           /\ p \notin Returned

(***************************************************************************)
(* C11: with a cap-rate range supplied, every returned property has no cap *)
(* rate or one inside the range, and a fallback answer with room for every *)
(* property leaves out no unseen property that lacks a cap rate.           *)
(***************************************************************************)
C11_CapRate ==
    (/\ Answered
     /\ response.handler = "route"
     /\ response.fail = "none"
     /\ response.filters.capRate # Absent) =>
        /\ \A p \in Returned : CapRateTolerated(property[p], response.filters)
        /\ (/\ Reasons \cap {"fallback", "fallback_no_location"} # {}
            /\ response.limit >= Cardinality(PropertyIds))
               => \A p \in PropertyIds \ response.seen :
                      (/\ property[p].cap_rate = NullNumber
                       /\ SatisfiesSupplied(property[p], response.filters))
                          => p \in Returned

(***************************************************************************)
(* C12: a request whose coordinates are two finite numbers, zero included, *)
(* does not leave location mode (no row is tagged as served without a      *)
(* location), and a request whose coordinates are missing or not finite is *)
(* never served by proximity.                                              *)
(***************************************************************************)
C12_ZeroCoordinates ==
    (Answered /\ response.handler = "route" /\ response.fail = "none") =>
        /\ FiniteCoordinates => "fallback_no_location" \notin Reasons
        /\ ~FiniteCoordinates => "location_based" \notin Reasons

(***************************************************************************)
(* C13: in the answer to a request with coordinates, of two returned       *)
(* properties within the search radius the nearer one comes first.         *)
(***************************************************************************)
C13_DistanceOrder ==
    (Answered /\ ProximityRequest /\ response.fail = "none") =>
        \A i, j \in 1..Len(response.recommendations) :
            LET a == response.recommendations[i].id
                b == response.recommendations[j].id
            IN  (/\ WithinRadius(a)
                 /\ WithinRadius(b)
                 /\ DistanceFromQuery(a) < DistanceFromQuery(b)) => i < j

(***************************************************************************)
(* C14: an answer of the route or of the service never has more entries    *)
(* than the limit of the request.                                          *)
(***************************************************************************)
C14_Limit == Answered => Len(response.recommendations) <= response.limit

\* an answer of exactly limit entries although more properties qualified
C14_Witness ==
    /\ Answered
    /\ response.handler = "route"
    /\ response.limit < Cardinality(Candidates)
    /\ Len(response.recommendations) = response.limit

(***************************************************************************)
(* C15: whichever store read fails during a recommendation request, the    *)
(* caller gets a list, possibly empty, and never a thrown error.           *)
(***************************************************************************)
C15_StoreFailureContained == Answered => response.status = "ok"

(***************************************************************************)
(* C16: the step that serves a recommendation request, in the route or in  *)
(* the service, leaves the interaction log, every user's row and embedding *)
(* and the edge store as they were (the property store is a constant of    *)
(* the model: no handler writes it).                                       *)
(***************************************************************************)
C16_RequestReadOnly ==
    [][(response = None /\ response' # None)
          => UNCHANGED <<interaction, user_embedding, app_user, edge>>]_vars

\* a request answered with results over a log, an embedding and edges
C16_Witness ==
    /\ Answered
    /\ Returned # {}
    /\ interaction # {}
    /\ user_embedding[response.userId] # NullEmbedding
    /\ edge # {}

(***************************************************************************)
(* C17: the interaction log is append-only: every entry (user, property,   *)
(* kind, timestamp) of the log is still in it, unchanged, after any step.  *)
(***************************************************************************)
C17_AppendOnly == [][\A r \in interaction : r \in interaction']_vars

(***************************************************************************)
(* C18: requests for one user do not change the outcome of requests for    *)
(* another.  Stated step by step over the recording endpoints: a step made *)
(* for user a leaves the entries and the embedding of every other user as  *)
(* they were, and a recording request for user b is acknowledged, and      *)
(* leaves b's own user row, as it would be on a store that holds only b's  *)
(* data.                                                                   *)
(***************************************************************************)
ViewOf(b) == <<{r \in interaction : r.user_id = b}, user_embedding[b]>>

\* the app_user table with only b's row
Alone(users, b) == [u \in Users |-> IF u = b THEN users[u] ELSE Null]

C18_UserIsolation ==
    [][/\ ack' # ack =>
           /\ \A b \in Users \ {ack'.userId} : ViewOf(b)' = ViewOf(b)
           /\ (ack'.op = "record" /\ ack'.endpoint = "upsert") =>
                  ack'.status = UpsertStatus(Alone(app_user, ack'.userId),
                                             ack'.userId)
           /\ (ack'.op = "record" /\ ack'.endpoint = "insert") =>
                  ack'.status = InsertStatus(Alone(app_user, ack'.userId),
                                             ViewOf(ack'.userId)[1],
                                             ack'.userId, ack'.propertyId)
       /\ \A req \in inflight' \ inflight :
              app_user'[req.userId] =
                  EnsureUser(Alone(app_user, req.userId), req.userId)[req.userId]
      ]_vars

(***************************************************************************)
(* C19: a step that records a skip leaves every stored embedding as it     *)
(* was, and whenever a user's embedding changes, its new value is the one  *)
(* the update computes from the log without its skip entries (or null,     *)
(* after a reset).                                                         *)
(***************************************************************************)
NonSkipped(rows) == {r \in rows : r.interaction_type # "skip"}

C19_SkipNeverCounts ==
    [][/\ (Recorded /\ ack'.interactionType = "skip")
           => user_embedding' = user_embedding
       /\ \A u \in Users :
              user_embedding'[u] # user_embedding[u] =>
                  user_embedding'[u] \in
                      {NullEmbedding,
                       AverageOfLiked(NonSkipped(interaction'), u, user_embedding[u]),
                       WeightedOfLiked(NonSkipped(interaction'), u, user_embedding[u])}
      ]_vars

\* a like was just recorded for a user who had skipped a property with an
\* embedding, and the user's embedding was computed
C19_Witness ==
    /\ ack.op = "record"
    /\ ack.status = "ok"
    /\ ack.interactionType = "like"
    /\ user_embedding[ack.userId] # NullEmbedding
    /\ \E r \in interaction :
           /\ r.user_id = ack.userId
           /\ r.interaction_type = "skip"
           /\ r.created_at < ack.at
           /\ property[r.property_id].property_embedding # NullEmbedding

(***************************************************************************)
(* C20: when a like is recorded with success, through any endpoint, for a  *)
(* user whose log holds likes and skips only, the stored embedding becomes *)
(* 0.7 * E_old + 0.3 * A, with A the average of the liked properties'      *)
(* embeddings, or A itself when the user had no embedding.                 *)
(***************************************************************************)
C20_Weighting ==
    [][(/\ Recorded
        /\ ack'.status = "ok"
        /\ ack'.interactionType = "like"
        /\ \A r \in interaction' :
               r.user_id = ack'.userId => r.interaction_type # "superlike")
       => user_embedding'[ack'.userId] =
              WeightedOfLiked(interaction', ack'.userId,
                              user_embedding[ack'.userId])]_vars

\* the properties a user has liked (kind 'like' or 'superlike')
LikedBy(userId) ==
    {r.property_id : r \in {x \in interaction :
        x.user_id = userId /\ x.interaction_type \in {"like", "superlike"}}}

\* the rows of the answer that were scored by graph traversal
GraphRows ==
    {i \in 1..Len(response.recommendations) :
        response.recommendations[i].reason = "graph_traversal"}

(***************************************************************************)
(* C23: every property returned by graph-traversal scoring is the target   *)
(* of an edge whose source is a property the requesting user has liked,    *)
(* and is not in the user's like/skip log.                                 *)
(***************************************************************************)
C23_GraphFromLiked ==
    (Answered /\ response.handler = "service" /\ response.fail = "none") =>
        \A i \in GraphRows :
            LET id == response.recommendations[i].id
            IN  /\ \E e \in edge :
                       /\ e.target_property_id = id
                       /\ e.source_property_id \in LikedBy(response.userId)
                /\ id \notin LikedOrSkipped(response.userId)

\* the weights of the edges read by the traversal that lead to a property
ReachedWeights(id) ==
    LET edges == EdgesQuery(response.limit)
    IN  [i \in {j \in 1..Len(edges) : edges[j].target_property_id = id}
            |-> edges[i].similarity_score]

RECURSIVE SumOver(_, _)
SumOver(f, dom) ==
    IF dom = {} THEN 0
    ELSE LET i == CHOOSE j \in dom : TRUE
         IN  f[i] + SumOver(f, dom \ {i})

(***************************************************************************)
(* C24: the graph score of a returned property that is the target of       *)
(* several edges read by the traversal is the average of the weights of    *)
(* those edges.                                                            *)
(***************************************************************************)
C24_GraphAverage ==
    (Answered /\ response.handler = "service" /\ response.fail = "none") =>
        \A i \in GraphRows :
            LET w == ReachedWeights(response.recommendations[i].id)
            IN  Cardinality(DOMAIN w) > 1 =>
                    response.recommendations[i].similarity_score * Cardinality(DOMAIN w)
                        = SumOver(w, DOMAIN w)

(***************************************************************************)
(* Vector scoring on its own: a user embedding and two candidate           *)
(* embeddings drawn from small sets, scored as the vector branch of the    *)
(* service scores the properties it has read.                              *)
(***************************************************************************)
MaxDim == 2

Components == {-40, 0, 30}

\* arrays of 1..MaxDim components, a value that is no array, a text that
\* does not parse
Vectors ==
    UNION {[1..n -> Components] : n \in 1..MaxDim} \cup {NullEmbedding, Unparsable}

\* backend-service.ts lines 97-104: one score per property read, in order
ScoreAll(userEmbedding, embeddings) ==
    [i \in 1..Len(embeddings) |->
        [property_embedding |-> embeddings[i],
         similarity_score |-> calculateVectorSimilarity(userEmbedding, embeddings[i]),
         reason |-> "vector_similarity"]]

ScoreRequest ==
    /\ response = None
    /\ \E userId \in Users, first \in Vectors, second \in Vectors :
          response' = [handler |-> "scoring", userId |-> userId,
                       embedding |-> user_embedding[userId],
                       recommendations |->
                           ScoreAll(user_embedding[userId], <<first, second>>)]
    /\ UNCHANGED <<stack, provider, interaction, user_embedding, app_user, edge, clock, inflight, ack>>

InitSim ==
    /\ interaction = {}
    /\ user_embedding \in {[u \in Users |-> v] : v \in Vectors}
    /\ app_user = [u \in Users |-> OwnEmail[u]]
    /\ edge = {}
    /\ clock = 0
    /\ inflight = {}
    /\ ack = NoAck
    /\ response = None
    /\ stack = Unmounted
    /\ provider = NoMatches

NextSim == ScoreRequest \/ Deliver

SpecSim == InitSim /\ [][NextSim]_vars

\* the vector has no direction: no array, no parse, or all components zero
\* over the first n
Degenerate(v, n) ==
    \/ v \in {NullEmbedding, Unparsable}
    \/ \A i \in 1..Min(n, Len(v)) : v[i] = 0

Scored == response # None /\ response.handler = "scoring"

(***************************************************************************)
(* C25: a pair in which either vector is no array, does not parse or has   *)
(* zero magnitude is scored exactly 0.5, and every candidate of the        *)
(* request gets a score between 0 and 1 whatever the other candidate is.   *)
(***************************************************************************)
C25_NeutralOnDegenerate ==
    Scored =>
        /\ Len(response.recommendations) = 2
        /\ \A i \in 1..Len(response.recommendations) :
               LET row == response.recommendations[i]
                   n == Min(Len(response.embedding), Len(row.property_embedding))
               IN  /\ (Degenerate(response.embedding, n)
                          \/ Degenerate(row.property_embedding, n))
                       => row.similarity_score = 500
                   /\ row.similarity_score \in 0..1000

\* an all-zero candidate next to one that has a direction
C25_Witness ==
    /\ Scored
    /\ response.embedding = <<30, -40>>
    /\ response.recommendations[1].property_embedding = <<0, 0>>
    /\ response.recommendations[1].similarity_score = 500
    /\ response.recommendations[2].property_embedding = <<30, -40>>
    /\ response.recommendations[2].similarity_score = 1000

C27_EmbeddingNeedsLikes ==
    \A u \in Users : LikedBy(u) = {} => user_embedding[u] = NullEmbedding

(***************************************************************************)
(* The recording endpoints step by step: the insert or upsert of the row,  *)
(* then, after an await, the reads of updateUserEmbedding, then, after     *)
(* another await, its write and the response.  Requests of other callers   *)
(* run between the steps, and a store call of the update may fail.         *)
(***************************************************************************)
ReadFailures == {"none", "liked_read", "property_read", "user_read"}

\* the interaction kinds the update of an endpoint selects
ReadKinds(endpoint) ==
    IF endpoint = "insert" THEN {"like", "superlike"} ELSE {"like"}

\* the property ids of the liked rows the update has read and found an
\* embedding for
LikedWithEmbedding(rows, userId, kinds) ==
    {r.property_id :
        r \in {x \in rows : /\ x.user_id = userId
                            /\ x.interaction_type \in kinds
                            /\ property[x.property_id].property_embedding
                                   # NullEmbedding}}

Pending(endpoint, userId, propertyId, interactionType) ==
    [endpoint |-> endpoint, userId |-> userId, propertyId |-> propertyId,
     interactionType |-> interactionType, at |-> clock + 1, stage |-> "read",
     fail |-> "none", liked |-> {}, stored |-> NullEmbedding,
     value |-> NullEmbedding]

StepAck(req, status, fail) ==
    [op |-> "record", endpoint |-> req.endpoint, userId |-> req.userId,
     propertyId |-> req.propertyId, interactionType |-> req.interactionType,
     at |-> req.at, status |-> status, fail |-> fail]

\* POST /api/user-interactions up to the call of updateUserEmbedding
InsertStep ==
    /\ clock < MaxClock
    /\ Cardinality(inflight) < MaxInflight
    /\ \E userId \in Users, propertyId \in PropertyIds,
          interactionType \in InteractionTypes :
          LET req == Pending("insert", userId, propertyId, interactionType)
          IN  IF InsertStatus(app_user, interaction, userId, propertyId) = "error"
              THEN /\ ack' = StepAck(req, "error", "none")
                   /\ UNCHANGED <<interaction, inflight>>
              ELSE /\ interaction' = interaction \cup
                          {Row(userId, propertyId, interactionType, clock + 1)}
                   /\ IF Positive(interactionType)
                      THEN inflight' = inflight \cup {req} /\ ack' = ack
                      ELSE inflight' = inflight /\ ack' = StepAck(req, "ok", "none")
    /\ clock' = clock + 1
    /\ UNCHANGED <<stack, provider, user_embedding, app_user, edge, response>>

\* POST /api/interactions (upsert variant) up to the call of
\* updateUserEmbedding
UpsertStep ==
    /\ clock < MaxClock
    /\ Cardinality(inflight) < MaxInflight
    /\ \E userId \in Users, propertyId \in PropertyIds,
          interactionType \in InteractionTypes :
          LET req == Pending("upsert", userId, propertyId, interactionType)
          IN  /\ app_user' = EnsureUser(app_user, userId)
              /\ IF UpsertStatus(app_user, userId) = "error"
                 THEN /\ ack' = StepAck(req, "error", "none")
                      /\ UNCHANGED <<interaction, inflight>>
                 ELSE /\ interaction' = UpsertRow(Row(userId, propertyId,
                                                     interactionType, clock + 1))
                      /\ IF Positive(interactionType)
                         THEN inflight' = inflight \cup {req} /\ ack' = ack
                         ELSE inflight' = inflight
                                  /\ ack' = StepAck(req, "ok", "none")
    /\ clock' = clock + 1
    /\ UNCHANGED <<stack, provider, user_embedding, edge, response>>

\* updateUserEmbedding up to its write: the liked rows, their embeddings
\* and, in user-interactions/route.ts, the stored embedding
ReadLiked ==
    \E req \in inflight, fail \in ReadFailures :
        LET kinds == ReadKinds(req.endpoint)
            liked == LikedWithEmbedding(interaction, req.userId, kinds)
            current == user_embedding[req.userId]
            \* a failed read of app_user leaves currentUser null: no base
            base == IF fail = "user_read" THEN NullEmbedding ELSE current
            value == IF req.endpoint = "insert"
                     THEN WeightedOfLiked(interaction, req.userId, base)
                     ELSE AverageOfLiked(interaction, req.userId, current)
        IN  /\ req.stage = "read"
            /\ fail = "user_read" => req.endpoint = "insert"
            /\ IF fail \in {"liked_read", "property_read"}
               THEN \* returned or thrown and caught: the response follows
                    /\ inflight' = inflight \ {req}
                    /\ ack' = StepAck(req, "ok", fail)
               ELSE IF liked = {}
               THEN /\ inflight' = inflight \ {req}
                    /\ ack' = StepAck(req, "ok", "no_embeddings")
               ELSE /\ inflight' = (inflight \ {req}) \cup
                           {[req EXCEPT !.stage = "write", !.fail = fail,
                                        !.liked = liked, !.stored = current,
                                        !.value = value]}
                    /\ ack' = ack
            /\ UNCHANGED <<stack, provider, interaction, user_embedding, app_user, edge, clock,
                           response>>

\* the update of app_user.user_embedding, whose error is at most logged, and
\* the response { success: true }
WriteEmbedding ==
    \E req \in inflight, updateError \in BOOLEAN :
        /\ req.stage = "write"
        /\ inflight' = inflight \ {req}
        /\ user_embedding' =
              IF updateError THEN user_embedding
              ELSE [user_embedding EXCEPT ![req.userId] = req.value]
        /\ ack' = StepAck(req, "ok",
                          IF updateError THEN "embedding_write" ELSE req.fail)
        /\ UNCHANGED <<stack, provider, interaction, app_user, edge, clock, response>>

InitSteps ==
    /\ interaction = {}
    /\ user_embedding = [u \in Users |-> NullEmbedding]
    /\ app_user = [u \in Users |-> OwnEmail[u]]
    /\ edge = {}
    /\ clock = 0
    /\ inflight = {}
    /\ ack = NoAck
    /\ response = None
    /\ stack = Unmounted
    /\ provider = NoMatches

NextSteps == InsertStep \/ UpsertStep \/ ReadLiked \/ WriteEmbedding

SpecSteps == InitSteps /\ [][NextSteps]_vars

(***************************************************************************)
(* C21: when the embedding update of a like or superlike of a user who has *)
(* a stored embedding fails at a step, the request is answered with        *)
(* success, its interaction is in the log, and the stored embedding is the *)
(* one from before.  Updates that raced with another write to the same     *)
(* embedding are left aside here.                                          *)
(***************************************************************************)
C21_UpdateFailureContained ==
    [][(/\ Recorded
        /\ Positive(ack'.interactionType)
        /\ ack'.fail # "none"
        /\ user_embedding[ack'.userId] # NullEmbedding
        /\ \A req \in inflight \ inflight' :
               req.stored = user_embedding[ack'.userId])
       => /\ ack'.status = "ok"
          /\ \E r \in interaction' :
                 r.user_id = ack'.userId /\ r.property_id = ack'.propertyId
          /\ user_embedding'[ack'.userId] = user_embedding[ack'.userId]]_vars

(***************************************************************************)
(* C22: when the last of a user's running like or superlike requests       *)
(* writes the embedding and is answered, the liked set it computed the     *)
(* embedding from contains every liked property with an embedding that the *)
(* user's answered requests have recorded.  Requests whose update failed   *)
(* are left aside: neither this answer nor the one before reports a        *)
(* failure.                                                                *)
(***************************************************************************)
C22_NoStaleWrite ==
    [][\A req \in inflight \ inflight' :
          (/\ req.stage = "write"
           /\ ack'.fail = "none"
           /\ ack.op = "record" => ack.fail = "none"
           /\ \A other \in inflight' : other.userId # req.userId)
          => LikedWithEmbedding(interaction', req.userId,
                                ReadKinds(req.endpoint)) \subseteq req.liked]_vars

(***************************************************************************)
(* The swipe stack of one user: PropertyStack with filters (the first      *)
(* component of property-stack.tsx) or the plain PropertyStack (the second *)
(* one), mounted over the stores.  currentIndex counts from 0 as in the    *)
(* code; a handler runs to its end, the requests it sends included.        *)
(***************************************************************************)
StackUser == "u1"

LoadLimit == 50
LoadMoreLimit == 25
LowWater == 5
PlainLoadLimit == 20
PlainLoadMoreLimit == 10
PlainLowWater == 3

Components2 == {"filters", "plain"}

Ids(recommendations) == [i \in 1..Len(recommendations) |-> recommendations[i].id]

NotIn(ids, seq) ==
    LET Keep(id) == id \notin ids IN SelectSeq(seq, Keep)

\* a card is on screen: no error screen and properties[currentIndex] exists
Idle == stack # Unmounted /\ ~stack.loadingMore

CardShown ==
    /\ Idle
    /\ ~stack.error
    /\ stack.currentIndex < Len(stack.properties)

\* loadProperties of either component, from the state st of the component,
\* over the stores as they are; down: the store calls of the request fail
loadProperties(st, down, last) ==
    IF st.component = "filters"
    THEN LET answer == RecommendationsPOST(StackUser, NoLocation, DefaultSearchRadius,
                           NoFilters, LoadLimit,
                           IF down THEN "fallback_query" ELSE "none")
             regular == getProperties(LoadLimit, down)
         IN  IF Len(answer.recommendations) > 0
             THEN [st EXCEPT !.properties = Ids(answer.recommendations),
                             !.viewedProperties = {}, !.error = FALSE,
                             !.last = last]
             ELSE IF regular.status = "threw"
             THEN [st EXCEPT !.error = TRUE, !.last = last]
             ELSE [st EXCEPT !.properties = Ids(regular.recommendations),
                             !.viewedProperties = {}, !.error = FALSE,
                             !.last = last]
    ELSE LET answer == getRecommendations(StackUser, PlainLoadLimit,
                           IF down THEN "property_store" ELSE "none")
             regular == getProperties(PlainLoadLimit, down)
             found == IF answer.status = "threw" THEN answer
                      ELSE IF Len(answer.recommendations) = 0 THEN regular
                      ELSE answer
             ids == Ids(found.recommendations)
         IN  IF found.status = "threw"
             THEN [st EXCEPT !.error = TRUE, !.last = last]
             ELSE [st EXCEPT !.properties = ids,
                             !.viewedProperties =
                                 IF Len(ids) > 0 THEN {ids[1]} ELSE @,
                             !.error = FALSE, !.last = last]

\* what loadMoreProperties fetches: recommendations, or the regular
\* properties when there are none
moreProperties(component, down) ==
    LET limit == IF component = "filters" THEN LoadMoreLimit
                 ELSE PlainLoadMoreLimit
        answer == getRecommendations(StackUser, limit,
                      IF down THEN "property_store" ELSE "none")
        regular == getProperties(limit, down)
    IN  IF answer.status = "threw" THEN answer
        ELSE IF Len(answer.recommendations) = 0 THEN regular
        ELSE answer

\* the list after loadMoreProperties: the first component drops what the
\* list already holds, the second one what the handler's viewedProperties
\* holds
appendMore(st, viewedProperties, found) ==
    LET newProperties == Ids(found.recommendations)
        existingIds == Range(st.properties)
    IN  IF found.status = "threw" THEN st
        ELSE IF st.component = "filters"
        THEN [st EXCEPT !.properties = @ \o NotIn(existingIds, newProperties)]
        ELSE [st EXCEPT !.properties = @ \o NotIn(viewedProperties, newProperties)]

\* useEffect(() => { loadProperties() }, [userId]) of a fresh component
Mount ==
    /\ stack = Unmounted
    /\ \E component \in Components2, down \in BOOLEAN :
          stack' = loadProperties(
                       [component |-> component, properties |-> <<>>,
                        currentIndex |-> 0, viewedProperties |-> {},
                        hasActiveFilters |-> FALSE, error |-> FALSE,
                        loadingMore |-> FALSE, closureViewed |-> {},
                        last |-> "mount"], down, "mount")
    /\ UNCHANGED <<interaction, user_embedding, app_user, edge, clock, inflight,
                   ack, response, provider>>

\* the buttons Try Again and Refresh
Reload ==
    /\ Idle
    /\ ~CardShown
    /\ \E down \in BOOLEAN : stack' = loadProperties(stack, down, "reload")
    /\ UNCHANGED <<interaction, user_embedding, app_user, edge, clock, inflight,
                   ack, response, provider>>

\* handleApplyFilters: matching stands for the filters, the properties that
\* pass them; /api/properties/filter answers them newest first
ApplyFilters ==
    /\ CardShown
    /\ stack.component = "filters"
    /\ \E matching \in SUBSET PropertyIds, ok \in BOOLEAN :
          LET InMatching(p) == p.id \in matching
              rows == SelectSeq(NewestFirst(AllProperties), InMatching)
          IN  stack' = IF ok
                       THEN [stack EXCEPT !.properties =
                                              [i \in 1..Len(rows) |-> rows[i].id],
                                          !.currentIndex = 0,
                                          !.viewedProperties = {},
                                          !.hasActiveFilters = TRUE,
                                          !.error = FALSE, !.last = "filter"]
                       ELSE [stack EXCEPT !.hasActiveFilters = TRUE,
                                          !.error = TRUE, !.last = "filter"]
    /\ UNCHANGED <<interaction, user_embedding, app_user, edge, clock, inflight,
                   ack, response, provider>>

clearFilters ==
    /\ CardShown
    /\ stack.component = "filters"
    /\ stack.hasActiveFilters
    /\ \E down \in BOOLEAN :
          stack' = loadProperties([stack EXCEPT !.hasActiveFilters = FALSE],
                                  down, "clear")
    /\ UNCHANGED <<interaction, user_embedding, app_user, edge, clock, inflight,
                   ack, response, provider>>

\* handleSwipe on the top card up to its last await: POST /api/interactions,
\* then the next card and, near the end of the list, the call of
\* loadMoreProperties with the viewedProperties of the handler's render
handleSwipe ==
    /\ CardShown
    /\ clock < MaxClock
    /\ \E action \in InteractionTypes, ok \in BOOLEAN :
          LET propertyId == stack.properties[stack.currentIndex + 1]
              rows == UpsertRow(Row(StackUser, propertyId, action, clock + 1))
              recorded == ok /\ UpsertStatus(app_user, StackUser) = "ok"
              low == IF stack.component = "filters" THEN LowWater
                     ELSE PlainLowWater
              moved == [stack EXCEPT !.viewedProperties = @ \cup {propertyId},
                                     !.currentIndex = @ + 1, !.last = "swipe"]
          IN  /\ UNCHANGED edge
              /\ app_user' = IF ok THEN EnsureUser(app_user, StackUser) ELSE app_user
              /\ interaction' = IF recorded THEN rows ELSE interaction
              /\ user_embedding' =
                    IF recorded /\ Positive(action)
                    THEN [user_embedding EXCEPT ![StackUser] =
                              AverageOfLiked(rows, StackUser, @)]
                    ELSE user_embedding
              /\ ack' = IF ok
                        THEN RecordAck("upsert", StackUser, propertyId, action,
                                       IF recorded THEN "ok" ELSE "error")
                        ELSE ack
              /\ stack' =
                    IF ~recorded THEN [stack EXCEPT !.last = "swipe"]
                    ELSE IF stack.currentIndex >= Len(stack.properties) - low
                    THEN [moved EXCEPT !.loadingMore = TRUE,
                                       !.closureViewed = stack.viewedProperties]
                    ELSE moved
    /\ clock' = clock + 1
    /\ UNCHANGED <<inflight, response, provider>>

\* loadMoreProperties, fetching after the interaction was recorded
loadMoreProperties ==
    /\ stack # Unmounted
    /\ stack.loadingMore
    /\ \E down \in BOOLEAN :
          stack' = [appendMore(stack, stack.closureViewed,
                               moreProperties(stack.component, down))
                       EXCEPT !.loadingMore = FALSE, !.closureViewed = {}]
    /\ UNCHANGED <<interaction, user_embedding, app_user, edge, clock, inflight,
                   ack, response, provider>>

handleBack ==
    /\ CardShown
    /\ stack.currentIndex > 0
    /\ stack' = [stack EXCEPT !.currentIndex = @ - 1, !.last = "back"]
    /\ UNCHANGED <<interaction, user_embedding, app_user, edge, clock, inflight,
                   ack, response, provider>>

InitStack ==
    /\ interaction = {}
    /\ user_embedding = [u \in Users |-> NullEmbedding]
    /\ app_user = [u \in Users |-> OwnEmail[u]]
    /\ edge \in {{}, SampleEdges}
    /\ clock = 0
    /\ inflight = {}
    /\ ack = NoAck
    /\ response = None
    /\ stack = Unmounted
    /\ provider = NoMatches

NextStack ==
    \/ Mount \/ Reload \/ ApplyFilters \/ clearFilters
    \/ handleSwipe \/ loadMoreProperties \/ handleBack

SpecStack == InitStack /\ [][NextStack]_vars

NoDuplicateCards(seq) ==
    \A i, j \in 1..Len(seq) : seq[i] = seq[j] => i = j

(***************************************************************************)
(* C28: after every handler of a mounted stack, 0 <= currentIndex <=       *)
(* properties.length, and after a load that replaced the list by at least  *)
(* one property, currentIndex is the position of a card of the new list.   *)
(***************************************************************************)
C28_IndexInRange ==
    [][stack' # Unmounted =>
          /\ 0 <= stack'.currentIndex
          /\ stack'.currentIndex <= Len(stack'.properties)
          /\ (/\ stack'.last \in {"mount", "reload", "filter", "clear"}
              /\ ~stack'.error
              /\ Len(stack'.properties) >= 1)
             => stack'.currentIndex < Len(stack'.properties)]_vars

(***************************************************************************)
(* C29: the ids of the cards in the properties list of a mounted stack are *)
(* pairwise distinct.                                                      *)
(***************************************************************************)
C29_DistinctCards ==
    stack # Unmounted => NoDuplicateCards(stack.properties)

(***************************************************************************)
(* MatchesProvider of one user over the interaction table.  A match is     *)
(* named by its interaction_id: the id of the superlike row when it was    *)
(* loaded from GET /api/user/matches, a local `${user}-${property}-${now}` *)
(* text when SwipeInterface added it.  removeMatchById is two steps, the   *)
(* DELETE request and, after the await, the state updates.                 *)
(***************************************************************************)
ProviderUser == "u1"

ServerId(row) ==
    [user_id |-> row.user_id, property_id |-> row.property_id,
     created_at |-> row.created_at, local |-> FALSE]

LocalId(userId, propertyId, now) ==
    [user_id |-> userId, property_id |-> propertyId, created_at |-> now,
     local |-> TRUE]

\* GET /api/user/matches: the superlike rows of the user, newest first
MatchesGET(userId) ==
    LET rows == SetToSeq({r \in interaction :
                    r.user_id = userId /\ r.interaction_type = "superlike"})
        sorted == NewestFirst(rows)
    IN  [i \in 1..Len(sorted) |-> ServerId(sorted[i])]

\* loadMatches of the api adapter: { matches, count }, both empty on a failure
loadMatches(userId, ok) ==
    IF ok THEN [matches |-> MatchesGET(userId), count |-> Len(MatchesGET(userId))]
    ELSE [matches |-> <<>>, count |-> 0]

loadMatchesData ==
    /\ \E ok \in BOOLEAN :
          LET loaded == loadMatches(ProviderUser, ok)
          IN  provider' = [matches |-> loaded.matches,
                           matchesCount |-> loaded.count]
    /\ UNCHANGED <<interaction, user_embedding, app_user, edge, clock, inflight,
                   ack, response, stack>>

addMatch(pv, match) ==
    [matches |-> IF \E i \in 1..Len(pv.matches) : pv.matches[i] = match
                 THEN pv.matches
                 ELSE Append(pv.matches, match),
     matchesCount |-> pv.matchesCount + 1]

\* SwipeInterface.handleSuperLike: POST /api/user-interactions, then addMatch
\* when the response is ok
handleSuperLike ==
    /\ clock < MaxClock
    /\ \E propertyId \in PropertyIds :
          LET rows == interaction \cup
                          {Row(ProviderUser, propertyId, "superlike", clock + 1)}
              status == InsertStatus(app_user, interaction, ProviderUser, propertyId)
          IN  IF status = "error"
              THEN /\ ack' = RecordAck("insert", ProviderUser, propertyId,
                                       "superlike", "error")
                   /\ UNCHANGED <<interaction, user_embedding, provider>>
              ELSE /\ interaction' = rows
                   /\ user_embedding' =
                         [user_embedding EXCEPT ![ProviderUser] =
                              WeightedOfLiked(rows, ProviderUser, @)]
                   /\ ack' = RecordAck("insert", ProviderUser, propertyId,
                                       "superlike", "ok")
                   /\ provider' = addMatch(provider,
                                      LocalId(ProviderUser, propertyId, clock + 1))
    /\ clock' = clock + 1
    /\ UNCHANGED <<app_user, edge, inflight, response, stack>>

\* removeMatch of the api adapter, called by removeMatchById for a listed
\* match: DELETE /api/user/matches deletes the row with that id; a local id
\* is no row id and the request fails
removeMatch ==
    /\ clock < MaxClock
    /\ Cardinality(inflight) < MaxInflight
    /\ \E i \in 1..Len(provider.matches), down \in BOOLEAN :
          LET interactionId == provider.matches[i]
              success == ~down /\ ~interactionId.local
          IN  /\ interaction' =
                    IF success
                    THEN {r \in interaction :
                             ServerId(r) # interactionId}
                    ELSE interaction
              /\ inflight' = inflight \cup
                     {[op |-> "remove", interactionId |-> interactionId,
                       at |-> clock + 1, success |-> success]}
    /\ clock' = clock + 1
    /\ UNCHANGED <<user_embedding, app_user, edge, ack, response, stack, provider>>

\* removeMatchById after the await: the entry is filtered out and the count
\* is decremented, when the request succeeded
removeMatchById ==
    \E req \in inflight :
        LET Other(match) == match # req.interactionId
        IN  /\ inflight' = inflight \ {req}
            /\ provider' =
                  IF req.success
                  THEN [matches |-> SelectSeq(provider.matches, Other),
                        matchesCount |->
                            IF provider.matchesCount - 1 > 0
                            THEN provider.matchesCount - 1 ELSE 0]
                  ELSE provider
            /\ UNCHANGED <<interaction, user_embedding, app_user, edge, clock,
                           ack, response, stack>>

clearMatches ==
    /\ provider # NoMatches
    /\ provider' = NoMatches
    /\ UNCHANGED <<interaction, user_embedding, app_user, edge, clock, inflight,
                   ack, response, stack>>

\* the superlikes of the user before the provider is mounted
StartingMatches ==
    SUBSET {Row(ProviderUser, p, "superlike", 0) : p \in PropertyIds}

InitMatches ==
    /\ interaction \in StartingMatches
    /\ user_embedding = [u \in Users |-> NullEmbedding]
    /\ app_user = [u \in Users |-> OwnEmail[u]]
    /\ edge = {}
    /\ clock = 0
    /\ inflight = {}
    /\ ack = NoAck
    /\ response = None
    /\ stack = Unmounted
    /\ provider = NoMatches

NextMatches ==
    \/ clearMatches
    \/ loadMatchesData \/ handleSuperLike \/ removeMatch \/ removeMatchById

SpecMatches == InitMatches /\ [][NextMatches]_vars

====
